---- MODULE Spec2Model ----
(***************************************************************************)
(* Model of the self-checkout backend (src/main.py, src/schemas.py).       *)
(*                                                                         *)
(* The document store is four collections (user, product, cart, order),    *)
(* each a sequence of documents in storage (insertion) order.  A stored    *)
(* document's _id is an ObjectId; the model numbers them 1, 2, ... per     *)
(* collection and converts them to and from their 24-character hex text    *)
(* exactly where the code does (str(...), ObjectId(...), oid(...)).        *)
(*                                                                         *)
(* Every handler is cut at its store calls: one step per find_one /        *)
(* insert / update_one, so that a specification may run one request at a   *)
(* time (Spec) or let the store calls of two requests interleave           *)
(* (SpecConc).  Prices are amounts in cents (integers): the handlers only  *)
(* multiply a price by an integer quantity and add the products up.        *)
(***************************************************************************)
EXTENDS Integers, Sequences, FiniteSets, TLC

\* ------------------------------------------------------------------ bounds
\* Number of requests that may be issued in one behaviour.
MaxRequests == 4

\* ------------------------------------------------------- object identifiers
\* Length of the textual form of an ObjectId (12 bytes, two hex digits each).
IdTextLen == 24

LowerHex == <<"0","1","2","3","4","5","6","7","8","9","a","b","c","d","e","f">>
UpperHex == <<"0","1","2","3","4","5","6","7","8","9","A","B","C","D","E","F">>

HexChars == {LowerHex[i] : i \in 1..16} \cup {UpperHex[i] : i \in 1..16}

\* Value of one hexadecimal character (either case), as bytes.fromhex reads it.
HexVal(c) == (CHOOSE i \in 1..16 : LowerHex[i] = c \/ UpperHex[i] = c) - 1

\* ObjectId.is_valid for a str: exactly 24 characters, all hexadecimal.
IsObjectIdText(s) == Len(s) = IdTextLen /\ \A i \in 1..Len(s) : s[i] \in HexChars

RECURSIVE HexToNat(_)
\* ObjectId(id_str) for a well-formed text: the number the hex text denotes.
HexToNat(s) ==
    IF s = <<>> THEN 0
    ELSE 16 * HexToNat(SubSeq(s, 1, Len(s) - 1)) + HexVal(s[Len(s)])

RECURSIVE NatToHex(_, _)
\* n written with exactly w lowercase hexadecimal digits.
NatToHex(n, w) ==
    IF w = 0 THEN <<>>
    ELSE Append(NatToHex(n \div 16, w - 1), LowerHex[(n % 16) + 1])

\* str(ObjectId): the 24-character lowercase hex text of an identifier.
IdText(n) == NatToHex(n, IdTextLen)

\* oid(id_str): the parsed identifier, or the HTTP 400 "Invalid id" error.
OidOk(s) == IsObjectIdText(s)
oid(s) == HexToNat(s)

\* Python's None.
None == "None"

\* ------------------------------------------------------------------ state
VARIABLES
    user,       \* db["user"]    : sequence of user documents
    product,    \* db["product"] : sequence of product documents
    cart,       \* db["cart"]    : sequence of cart documents
    order,      \* db["order"]   : sequence of order documents
    workers,    \* the server processes that share the store
    req,        \* per worker: the request being handled and its local variables
    resp,       \* per worker: the response of the last finished request
    pre,        \* per worker: the store as it was when its current/last request began
                \* (kept while a single process serves, where nothing else writes)
    calls,      \* per worker: the store calls its current/last request has issued
    requested,  \* per cart: quantity asked for by accepted cart-adds, per product_id
    checkedOut, \* per user: a checkout succeeded and no cart-add was made since
    started     \* number of requests issued so far

vars == <<user, product, cart, order, workers, req, resp, pre, calls,
          requested, checkedOut, started>>

db == <<user, product, cart, order>>

\* Server processes; a single process handles one request at a time (the
\* handlers are coroutines that never await), several processes interleave.
Procs == {"w1", "w2"}

Idle == [op |-> "idle"]
NoResp == [op |-> "none"]

Snapshot ==
    [user |-> user, product |-> product, cart |-> cart, order |-> order]

\* ----------------------------------------------------------------- inputs
\* A text that is no ObjectId (wrong length).
BadId == <<"x", "y", "z">>

UserIdInputs == {IdText(1), BadId}
\* the user whose requests race when two processes serve
ConcUserIds == {IdText(1)}
ProductIdInputs == {IdText(1), IdText(2), BadId}
OrderIdInputs == {IdText(1), IdText(2), BadId}
\* CartItem payloads (price in cents): a plain item, the same product again under
\* another title with a negative price, a second product, a malformed product_id,
\* and a quantity the schema rejects.
CartItemInputs ==
    { [product_id |-> IdText(1), title |-> "Pen", price |-> 150, quantity |-> 1,
       barcode |-> None],
      [product_id |-> IdText(1), title |-> "Milk", price |-> -200, quantity |-> 2,
       barcode |-> None],
      [product_id |-> IdText(2), title |-> "Milk", price |-> 200, quantity |-> 2,
       barcode |-> None],
      [product_id |-> BadId, title |-> "Pen", price |-> 150, quantity |-> 1,
       barcode |-> None],
      [product_id |-> IdText(1), title |-> "Pen", price |-> 150, quantity |-> 0,
       barcode |-> None] }

\* ---------------------------------------------------------------- helpers
RECURSIVE SumSeq(_)
SumSeq(s) == IF s = <<>> THEN 0 ELSE s[1] + SumSeq(Tail(s))

\* (mutant) the subtotal adds up the prices and forgets the quantities
Subtotal_IgnoresQuantity(items) ==
    SumSeq([k \in 1..Len(items) |-> items[k].price])

\* cart_add: cart["subtotal"] = sum(i["price"] * i["quantity"] for i in cart["items"])
Subtotal(items) ==
    SumSeq([k \in 1..Len(items) |-> items[k].price * items[k].quantity])

\* checkout: total = sum(i["price"] * i["quantity"] for i in cart["items"])
Total(items) ==
    SumSeq([k \in 1..Len(items) |-> items[k].price * items[k].quantity])

\* The identifier the store assigns to the next document of a collection.
NextObjectId(coll) == Len(coll) + 1

\* create_document(collection_name, data): insert the record's fields under a new
\* identifier; the caller gets IdText(NextObjectId(coll)) back.
create_document(coll, data) == Append(coll, data @@ [_id |-> NextObjectId(coll)])

\* CartItem's field constraints: quantity >= 1 (price carries none).
CartItemValid(it) == it.quantity >= 1

\* (mutant) the lookup filters on user_id only
FindActiveCart_AnyStatus(carts, u) ==
    LET hits == {k \in 1..Len(carts) : carts[k].user_id = u}
    IN IF hits = {} THEN 0 ELSE CHOOSE k \in hits : \A j \in hits : k <= j

\* (mutant) the lookup never finds a cart
FindActiveCart_Never(carts, u) == 0

\* db["cart"].find_one({"user_id": u, "status": "active"}): position of the first
\* match in storage order, 0 when there is none.
FindActiveCart(carts, u) ==
    LET hits == {k \in 1..Len(carts) :
                    carts[k].user_id = u /\ carts[k].status = "active"}
    IN IF hits = {} THEN 0 ELSE CHOOSE k \in hits : \A j \in hits : k <= j

\* (mutant) the filter is ignored: the first document of the collection matches
FindById_First(coll, id) == IF coll = <<>> THEN 0 ELSE 1

\* find_one({"_id": id}) on a collection: position of the document, 0 if none.
FindById(coll, id) ==
    LET hits == {k \in 1..Len(coll) : coll[k]._id = id}
    IN IF hits = {} THEN 0 ELSE CHOOSE k \in hits : TRUE

\* (mutant) no merge: the item is always appended
MergeItem_AlwaysAppend(items, it) == Append(items, it)

\* The merge loop of cart_add: add the quantity to the first line with the same
\* product_id, or append the item.
MergeItem(items, it) ==
    LET hits == {k \in 1..Len(items) : items[k].product_id = it.product_id}
    IN IF hits = {} THEN Append(items, it)
       ELSE LET k == CHOOSE x \in hits : \A j \in hits : x <= j
            IN [items EXCEPT ![k].quantity = @ + it.quantity]

NoRequested == [pid \in ProductIdInputs |-> 0]

\* ------------------------------------------------------- request plumbing
CanStart(p) ==
    /\ p \in workers
    /\ req[p] = Idle
    /\ started < MaxRequests

Begin(p) ==
    /\ started' = started + 1
    /\ pre' = IF workers = {p} THEN [pre EXCEPT ![p] = Snapshot] ELSE pre
    /\ calls' = [calls EXCEPT ![p] = <<>>]
    /\ UNCHANGED workers

Finish(p, r) ==
    /\ req' = [req EXCEPT ![p] = Idle]
    /\ resp' = [resp EXCEPT ![p] = r]

Goto(p, r) ==
    /\ req' = [req EXCEPT ![p] = r]
    /\ UNCHANGED resp

Call(p, c) == calls' = [calls EXCEPT ![p] = Append(@, c)]

Running(p, op, pc) == req[p].op = op /\ req[p].pc = pc

Frame == UNCHANGED <<workers, pre, started>>

\* --------------------------------------------------------------- cart_add
\* POST /cart/{user_id}/add: the body is validated against CartItem before the
\* handler runs (422 on failure).
CartAddStart(p, u, it) ==
    /\ CanStart(p)
    /\ Begin(p)
    /\ IF CartItemValid(it)
       THEN /\ req' = [req EXCEPT ![p] =
                         [op |-> "cart_add", pc |-> "find", user_id |-> u, item |-> it,
                          after |-> checkedOut[u]]]
            /\ resp' = [resp EXCEPT ![p] = NoResp]
            /\ checkedOut' = [checkedOut EXCEPT ![u] = FALSE]
       ELSE /\ Finish(p, [op |-> "cart_add", user_id |-> u, item |-> it,
                          after |-> checkedOut[u],
                          status |-> 422, body |-> "validation error"])
            /\ UNCHANGED checkedOut
    /\ UNCHANGED <<db, requested>>

\* cart = db["cart"].find_one({"user_id": user_id, "status": "active"})
CartAddFind(p) ==
    /\ Running(p, "cart_add", "find")
    /\ LET k == FindActiveCart(cart, req[p].user_id)
       IN IF k = 0
          THEN Goto(p, [req[p] EXCEPT !.pc = "create"])
          ELSE Goto(p, [op |-> "cart_add", pc |-> "update",
                        user_id |-> req[p].user_id, item |-> req[p].item,
                        after |-> req[p].after, cart |-> cart[k]])
    /\ Call(p, [call |-> "find_one", coll |-> "cart", hit |-> TRUE])
    /\ Frame
    /\ UNCHANGED <<db, requested, checkedOut>>

\* (mutant) the creation is an upsert on {user_id, status "active"}: when an
\* active cart has appeared since the lookup, that cart is taken over
CartAddCreate_Upsert(p) ==
    /\ Running(p, "cart_add", "create")
    /\ LET doc == [user_id |-> req[p].user_id, items |-> <<>>,
                   status |-> "active", subtotal |-> 0]
           k == FindActiveCart(cart, req[p].user_id)
       IN /\ cart' = IF k = 0 THEN create_document(cart, doc) ELSE cart
          /\ requested' = IF k = 0 THEN Append(requested, NoRequested) ELSE requested
          /\ Goto(p, [op |-> "cart_add", pc |-> "update",
                      user_id |-> req[p].user_id, item |-> req[p].item,
                      after |-> req[p].after,
                      cart |-> IF k = 0
                               THEN doc @@ [_id |-> oid(IdText(NextObjectId(cart)))]
                               ELSE cart[k]])
    /\ Call(p, [call |-> "insert_one", coll |-> "cart", hit |-> TRUE])
    /\ Frame
    /\ UNCHANGED <<user, product, order, checkedOut>>

\* cart["_id"] = ObjectId(create_document("cart", cart))
CartAddCreate(p) ==
    /\ Running(p, "cart_add", "create")
    /\ LET doc == [user_id |-> req[p].user_id, items |-> <<>>,
                   status |-> "active", subtotal |-> 0]
       IN /\ cart' = create_document(cart, doc)
          /\ Goto(p, [op |-> "cart_add", pc |-> "update",
                      user_id |-> req[p].user_id, item |-> req[p].item,
                      after |-> req[p].after,
                      cart |-> doc @@ [_id |-> oid(IdText(NextObjectId(cart)))]])
    /\ requested' = Append(requested, NoRequested)
    /\ Call(p, [call |-> "insert_one", coll |-> "cart", hit |-> TRUE])
    /\ Frame
    /\ UNCHANGED <<user, product, order, checkedOut>>

\* (mutant) the merge starts from the items the store holds at the write
ItemsToMerge_Stored(local, carts) ==
    LET k == FindById(carts, local._id)
    IN IF k = 0 THEN local.items ELSE carts[k].items

\* items = cart.get("items", []): the merge starts from the items of the cart
\* document the handler holds (read by find_one, or just created), not from the
\* store.
ItemsToMerge(local, carts) == local.items

\* merge, recompute the subtotal, update_one({"_id": cart["_id"]}, {"$set": ...})
CartAddUpdate(p) ==
    /\ Running(p, "cart_add", "update")
    /\ LET items == MergeItem(ItemsToMerge(req[p].cart, cart), req[p].item)
           sub == Subtotal(items)
           k == FindById(cart, req[p].cart._id)
       IN /\ cart' = IF k = 0 THEN cart
                     ELSE [cart EXCEPT ![k].items = items, ![k].subtotal = sub]
          /\ requested' = IF k = 0 THEN requested
                          ELSE [requested EXCEPT ![k][req[p].item.product_id] =
                                                     @ + req[p].item.quantity]
          /\ Call(p, [call |-> "update_one", coll |-> "cart", hit |-> k # 0])
          /\ Finish(p, [op |-> "cart_add", user_id |-> req[p].user_id,
                        item |-> req[p].item, after |-> req[p].after,
                        status |-> 200,
                        body |-> [cart_id |-> IdText(req[p].cart._id),
                                  subtotal |-> sub, items |-> items]])
    /\ Frame
    /\ UNCHANGED <<user, product, order, checkedOut>>

\* --------------------------------------------------------------- get_cart
GetCartStart(p, u) ==
    /\ CanStart(p)
    /\ Begin(p)
    /\ req' = [req EXCEPT ![p] = [op |-> "get_cart", pc |-> "find", user_id |-> u]]
    /\ resp' = [resp EXCEPT ![p] = NoResp]
    /\ UNCHANGED <<db, requested, checkedOut>>

GetCartFind(p) ==
    /\ Running(p, "get_cart", "find")
    /\ LET k == FindActiveCart(cart, req[p].user_id)
       IN Finish(p, [op |-> "get_cart", user_id |-> req[p].user_id, status |-> 200,
                     body |-> IF k = 0
                              THEN [items |-> <<>>, subtotal |-> 0]
                              ELSE [cart[k] EXCEPT !._id = IdText(cart[k]._id)]])
    /\ Call(p, [call |-> "find_one", coll |-> "cart", hit |-> TRUE])
    /\ Frame
    /\ UNCHANGED <<db, requested, checkedOut>>

\* --------------------------------------------------------------- checkout
CheckoutStart(p, u) ==
    /\ CanStart(p)
    /\ Begin(p)
    /\ req' = [req EXCEPT ![p] = [op |-> "checkout", pc |-> "find", user_id |-> u,
                                  after |-> checkedOut[u]]]
    /\ resp' = [resp EXCEPT ![p] = NoResp]
    /\ UNCHANGED <<db, requested, checkedOut>>

\* find the active cart; 400 "Cart is empty" if there is none or it has no items;
\* otherwise compute the total.
CheckoutFind(p) ==
    /\ Running(p, "checkout", "find")
    /\ LET k == FindActiveCart(cart, req[p].user_id)
           after == req[p].after /\ checkedOut[req[p].user_id]
       IN IF k = 0 \/ (k # 0 /\ cart[k].items = <<>>)
          THEN Finish(p, [op |-> "checkout", user_id |-> req[p].user_id,
                          after |-> after,
                          status |-> 400, body |-> "Cart is empty"])
          ELSE Goto(p, [op |-> "checkout", pc |-> "order",
                        user_id |-> req[p].user_id, after |-> after,
                        cart |-> cart[k], total |-> Total(cart[k].items)])
    /\ Call(p, [call |-> "find_one", coll |-> "cart", hit |-> TRUE])
    /\ Frame
    /\ UNCHANGED <<db, requested, checkedOut>>

\* order = Order(...); order_id = create_document("order", order)
CheckoutOrder(p) ==
    /\ Running(p, "checkout", "order")
    /\ LET doc == [user_id |-> req[p].user_id,
                   cart_id |-> IdText(req[p].cart._id),
                   items |-> req[p].cart.items,
                   total |-> req[p].total,
                   status |-> "pending",
                   payment_method |-> "gpay",
                   created_at |-> None]
       IN /\ order' = create_document(order, doc)
          /\ Goto(p, [op |-> "checkout", pc |-> "stock",
                      user_id |-> req[p].user_id, after |-> req[p].after,
                      cart |-> req[p].cart, total |-> req[p].total,
                      order_id |-> IdText(NextObjectId(order)), i |-> 1])
    /\ Call(p, [call |-> "insert_one", coll |-> "order", hit |-> TRUE])
    /\ Frame
    /\ UNCHANGED <<user, product, cart, requested, checkedOut>>

\* one turn of the stock loop:
\* db["product"].update_one({"_id": oid(i["product_id"])}, {"$inc": {"stock": -qty}})
CheckoutStock(p) ==
    /\ Running(p, "checkout", "stock")
    /\ LET it == req[p].cart.items[req[p].i]
       IN IF ~OidOk(it.product_id)
          THEN /\ Finish(p, [op |-> "checkout", user_id |-> req[p].user_id,
                             after |-> req[p].after,
                             status |-> 400, body |-> "Invalid id"])
               /\ UNCHANGED <<product, calls>>
          ELSE LET k == FindById(product, oid(it.product_id))
               IN /\ product' = IF k = 0 THEN product
                                ELSE [product EXCEPT ![k].stock = @ - it.quantity]
                  /\ Call(p, [call |-> "update_one", coll |-> "product",
                              hit |-> k # 0])
                  /\ Goto(p, IF req[p].i < Len(req[p].cart.items)
                             THEN [req[p] EXCEPT !.i = @ + 1]
                             ELSE [req[p] EXCEPT !.pc = "mark"])
    /\ Frame
    /\ UNCHANGED <<user, cart, order, requested, checkedOut>>

\* db["cart"].update_one({"_id": cart["_id"]}, {"$set": {"status": "checked_out"}})
CheckoutMark(p) ==
    /\ Running(p, "checkout", "mark")
    /\ LET k == FindById(cart, req[p].cart._id)
       IN /\ cart' = IF k = 0 THEN cart ELSE [cart EXCEPT ![k].status = "checked_out"]
          /\ Call(p, [call |-> "update_one", coll |-> "cart", hit |-> k # 0])
    /\ checkedOut' = [checkedOut EXCEPT ![req[p].user_id] = TRUE]
    /\ Finish(p, [op |-> "checkout", user_id |-> req[p].user_id,
                  after |-> req[p].after, status |-> 200,
                  body |-> [order_id |-> req[p].order_id, total |-> req[p].total]])
    /\ Frame
    /\ UNCHANGED <<user, product, order, requested>>

\* -------------------------------------------------------------------- pay
\* POST /pay/gpay/{order_id}
PayStart(p, id) ==
    /\ CanStart(p)
    /\ Begin(p)
    /\ req' = [req EXCEPT ![p] = [op |-> "pay", pc |-> "find", order_id |-> id]]
    /\ resp' = [resp EXCEPT ![p] = NoResp]
    /\ UNCHANGED <<db, requested, checkedOut>>

\* order = db["order"].find_one({"_id": oid(order_id)}); 404 if there is none
PayFind(p) ==
    /\ Running(p, "pay", "find")
    /\ IF ~OidOk(req[p].order_id)
       THEN /\ Finish(p, [op |-> "pay", order_id |-> req[p].order_id,
                          status |-> 400, body |-> "Invalid id"])
            /\ UNCHANGED calls
       ELSE LET k == FindById(order, oid(req[p].order_id))
            IN /\ Call(p, [call |-> "find_one", coll |-> "order", hit |-> k # 0])
               /\ IF k = 0
                  THEN Finish(p, [op |-> "pay", order_id |-> req[p].order_id,
                                  status |-> 404, body |-> "Order not found"])
                  ELSE Goto(p, [op |-> "pay", pc |-> "update",
                                order_id |-> req[p].order_id, order |-> order[k]])
    /\ Frame
    /\ UNCHANGED <<db, requested, checkedOut>>

\* (mutant) a second payment of a paid order is recorded as failed
OrderAfterPay_FailsRepeat(o) ==
    [o EXCEPT !.status = IF o.status = "paid" THEN "failed" ELSE "paid"]

\* {"$set": {"status": "paid"}}: the order document after the update
OrderAfterPay(o) == [o EXCEPT !.status = "paid"]

\* db["order"].update_one({"_id": order["_id"]}, {"$set": {"status": "paid"}})
PayUpdate(p) ==
    /\ Running(p, "pay", "update")
    /\ LET k == FindById(order, req[p].order._id)
       IN /\ order' = IF k = 0 THEN order ELSE [order EXCEPT ![k] = OrderAfterPay(@)]
          /\ Call(p, [call |-> "update_one", coll |-> "order", hit |-> k # 0])
    /\ Finish(p, [op |-> "pay", order_id |-> req[p].order_id,
                  status |-> 200, body |-> [status |-> "success"]])
    /\ Frame
    /\ UNCHANGED <<user, product, cart, requested, checkedOut>>

\* ---------------------------------------------------------------- receipt
\* POST /receipt/send
ReceiptStart(p, id) ==
    /\ CanStart(p)
    /\ Begin(p)
    /\ req' = [req EXCEPT ![p] = [op |-> "receipt", pc |-> "find", order_id |-> id]]
    /\ resp' = [resp EXCEPT ![p] = NoResp]
    /\ UNCHANGED <<db, requested, checkedOut>>

ReceiptFind(p) ==
    /\ Running(p, "receipt", "find")
    /\ IF ~OidOk(req[p].order_id)
       THEN /\ Finish(p, [op |-> "receipt", order_id |-> req[p].order_id,
                          status |-> 400, body |-> "Invalid id"])
            /\ UNCHANGED calls
       ELSE LET k == FindById(order, oid(req[p].order_id))
            IN /\ Call(p, [call |-> "find_one", coll |-> "order", hit |-> k # 0])
               /\ IF k = 0
                  THEN Finish(p, [op |-> "receipt", order_id |-> req[p].order_id,
                                  status |-> 404, body |-> "Order not found"])
                  ELSE Finish(p, [op |-> "receipt", order_id |-> req[p].order_id,
                                  status |-> 200,
                                  body |-> [status |-> "queued",
                                            order_id |-> req[p].order_id]])
    /\ Frame
    /\ UNCHANGED <<db, requested, checkedOut>>

\* --------------------------------------------------------------- register
\* email and password of a registration or login
CredentialInputs ==
    {<<"ann@shop.io", "pw1">>, <<"ann@shop.io", "pw2">>, <<"bob@shop.io", "pw1">>}

\* (mutant) the existence check never finds a user
FindUserByEmail_Never(users, e) == 0

\* db["user"].find_one({"email": e}): position of the first match, 0 if none.
FindUserByEmail(users, e) ==
    LET hits == {k \in 1..Len(users) : users[k].email = e}
    IN IF hits = {} THEN 0 ELSE CHOOSE k \in hits : \A j \in hits : k <= j

\* POST /auth/register
RegisterStart(p, e, pw) ==
    /\ CanStart(p)
    /\ Begin(p)
    /\ req' = [req EXCEPT ![p] =
                 [op |-> "register", pc |-> "find", email |-> e, password |-> pw]]
    /\ resp' = [resp EXCEPT ![p] = NoResp]
    /\ UNCHANGED <<db, requested, checkedOut>>

\* exists = db["user"].find_one({"email": payload.email}); 400 if it exists
RegisterFind(p) ==
    /\ Running(p, "register", "find")
    /\ LET k == FindUserByEmail(user, req[p].email)
       IN /\ Call(p, [call |-> "find_one", coll |-> "user", hit |-> k # 0])
          /\ IF k # 0
             THEN Finish(p, [op |-> "register", email |-> req[p].email,
                             password |-> req[p].password,
                             status |-> 400, body |-> "Email already registered"])
             ELSE Goto(p, [req[p] EXCEPT !.pc = "insert"])
    /\ Frame
    /\ UNCHANGED <<db, requested, checkedOut>>

\* user = User(...); user_id = create_document("user", user)
RegisterInsert(p) ==
    /\ Running(p, "register", "insert")
    /\ LET doc == [name |-> "customer name",
                   email |-> req[p].email, phone |-> None,
                   password |-> req[p].password, role |-> "customer",
                   is_active |-> TRUE]
       IN /\ user' = create_document(user, doc)
          /\ Finish(p, [op |-> "register", email |-> req[p].email,
                        password |-> req[p].password, status |-> 200,
                        body |-> [user_id |-> IdText(NextObjectId(user))]])
    /\ Call(p, [call |-> "insert_one", coll |-> "user", hit |-> TRUE])
    /\ Frame
    /\ UNCHANGED <<product, cart, order, requested, checkedOut>>

\* ------------------------------------------------------------ add_product
\* title, price (cents), stock as sent; Product demands price >= 0, stock >= 0.
ProductInputs == {<<"Gum", 50, 1>>, <<"Gum", -50, 1>>, <<"Gum", 50, -1>>}

ProductValid(pr) == pr[2] >= 0 /\ pr[3] >= 0

\* POST /products: validated against Product (422), then one insert.
AddProduct(p, pr) ==
    /\ CanStart(p)
    /\ Begin(p)
    /\ IF ProductValid(pr)
       THEN LET doc == [title |-> pr[1], price |-> pr[2],
                        barcode |-> None, stock |-> pr[3]]
            IN /\ product' = create_document(product, doc)
               /\ Finish(p, [op |-> "add_product", status |-> 200,
                             body |-> [product_id |-> IdText(NextObjectId(product))]])
       ELSE /\ Finish(p, [op |-> "add_product", status |-> 422,
                          body |-> "validation error"])
            /\ UNCHANGED product
    /\ UNCHANGED <<user, cart, order, requested, checkedOut>>

\* ------------------------------------------------------------------- seed
SeedItems ==
    << [title |-> "Pen", price |-> 150, barcode |-> "PEN123", stock |-> 100],
       [title |-> "Milk", price |-> 200, barcode |-> "MILK123", stock |-> 50],
       [title |-> "Chocolate", price |-> 300, barcode |-> "CHOCO123", stock |-> 75] >>

\* POST /seed
SeedStart(p) ==
    /\ CanStart(p)
    /\ Begin(p)
    /\ req' = [req EXCEPT ![p] = [op |-> "seed", pc |-> "count"]]
    /\ resp' = [resp EXCEPT ![p] = NoResp]
    /\ UNCHANGED <<db, requested, checkedOut>>

\* (mutant) the guard is skipped: the demo products are inserted every time
ProductsExist_Never(count) == FALSE

\* if count > 0: return {"message": "Products already exist"}
ProductsExist(count) == count > 0

\* count = db["product"].count_documents({}); nothing to do if count > 0
SeedCount(p) ==
    /\ Running(p, "seed", "count")
    /\ IF ProductsExist(Len(product))
       THEN Finish(p, [op |-> "seed", status |-> 200,
                       body |-> [message |-> "Products already exist"]])
       ELSE Goto(p, [op |-> "seed", pc |-> "insert", i |-> 1])
    /\ Call(p, [call |-> "count_documents", coll |-> "product", hit |-> TRUE])
    /\ Frame
    /\ UNCHANGED <<db, requested, checkedOut>>

\* one turn of: for it in items: create_document("product", it)
SeedInsert(p) ==
    /\ Running(p, "seed", "insert")
    /\ product' = create_document(product, SeedItems[req[p].i])
    /\ Call(p, [call |-> "insert_one", coll |-> "product", hit |-> TRUE])
    /\ IF req[p].i < Len(SeedItems)
       THEN Goto(p, [req[p] EXCEPT !.i = @ + 1])
       ELSE Finish(p, [op |-> "seed", status |-> 200,
                       body |-> [message |-> "Seeded"]])
    /\ Frame
    /\ UNCHANGED <<user, cart, order, requested, checkedOut>>

\* ------------------------------------------------------------------ login
\* (mutant) the lookup filters on the email only
FindUserByCredentials_EmailOnly(users, e, pw) ==
    LET hits == {k \in 1..Len(users) : users[k].email = e}
    IN IF hits = {} THEN 0 ELSE CHOOSE k \in hits : \A j \in hits : k <= j

\* db["user"].find_one({"email": e, "password": pw}): position of the first
\* match, 0 if none.
FindUserByCredentials(users, e, pw) ==
    LET hits == {k \in 1..Len(users) :
                    users[k].email = e /\ users[k].password = pw}
    IN IF hits = {} THEN 0 ELSE CHOOSE k \in hits : \A j \in hits : k <= j

\* POST /auth/login
LoginStart(p, e, pw) ==
    /\ CanStart(p)
    /\ Begin(p)
    /\ req' = [req EXCEPT ![p] =
                 [op |-> "login", pc |-> "find", email |-> e, password |-> pw]]
    /\ resp' = [resp EXCEPT ![p] = NoResp]
    /\ UNCHANGED <<db, requested, checkedOut>>

\* user = db["user"].find_one({...}); 401 "Invalid credentials" if there is none
LoginFind(p) ==
    /\ Running(p, "login", "find")
    /\ LET k == FindUserByCredentials(user, req[p].email, req[p].password)
       IN /\ Call(p, [call |-> "find_one", coll |-> "user", hit |-> k # 0])
          /\ IF k = 0
             THEN Finish(p, [op |-> "login", email |-> req[p].email,
                             password |-> req[p].password,
                             status |-> 401, body |-> "Invalid credentials"])
             ELSE Finish(p, [op |-> "login", email |-> req[p].email,
                             password |-> req[p].password, status |-> 200,
                             body |-> [user_id |-> IdText(user[k]._id),
                                       role |-> user[k].role,
                                       name |-> user[k].name]])
    /\ Frame
    /\ UNCHANGED <<db, requested, checkedOut>>

\* ---------------------------------------------------------- manager_stats
RECURSIVE SumQuantities(_)
\* {"$unwind": "$items"}, {"$group": {"qty": {"$sum": "$items.quantity"}}}
SumQuantities(orders) ==
    IF orders = <<>> THEN 0
    ELSE SumSeq([i \in 1..Len(orders[1].items) |-> orders[1].items[i].quantity])
         + SumQuantities(Tail(orders))

\* sold: {"$match": {"status": {"$in": ["pending", "paid"]}}}, quantities summed
SoldQty(orders) ==
    LET Sold(o) == o.status \in {"pending", "paid"}
    IN SumQuantities(SelectSeq(orders, Sold))

\* remaining: {"$group": {"qty": {"$sum": "$stock"}}} over the products
RemainingQty(products) ==
    SumSeq([k \in 1..Len(products) |-> products[k].stock])

\* (mutant) the revenue counts the pending orders too
Revenue_WithPending(orders) ==
    SumSeq([k \in 1..Len(orders) |-> orders[k].total])

\* revenue: orders whose status is "paid", totals summed
Revenue(orders) ==
    LET Paid(o) == o.status = "paid"
        paid == SelectSeq(orders, Paid)
    IN SumSeq([k \in 1..Len(paid) |-> paid[k].total])

\* GET /manager/stats
StatsStart(p) ==
    /\ CanStart(p)
    /\ Begin(p)
    /\ req' = [req EXCEPT ![p] = [op |-> "stats", pc |-> "count"]]
    /\ resp' = [resp EXCEPT ![p] = NoResp]
    /\ UNCHANGED <<db, requested, checkedOut>>

\* total_items = db["product"].count_documents({})
StatsCount(p) ==
    /\ Running(p, "stats", "count")
    /\ Goto(p, [op |-> "stats", pc |-> "sold", total_items |-> Len(product)])
    /\ Call(p, [call |-> "count_documents", coll |-> "product", hit |-> TRUE])
    /\ Frame
    /\ UNCHANGED <<db, requested, checkedOut>>

\* sold = db["order"].aggregate([...]); sold_qty = 0 unless a group comes back
StatsSold(p) ==
    /\ Running(p, "stats", "sold")
    /\ Goto(p, [op |-> "stats", pc |-> "remaining",
                total_items |-> req[p].total_items,
                sold_qty |-> SoldQty(order)])
    /\ Call(p, [call |-> "aggregate", coll |-> "order", hit |-> TRUE])
    /\ Frame
    /\ UNCHANGED <<db, requested, checkedOut>>

\* remaining = db["product"].aggregate([...])
StatsRemaining(p) ==
    /\ Running(p, "stats", "remaining")
    /\ Goto(p, [op |-> "stats", pc |-> "revenue",
                total_items |-> req[p].total_items,
                sold_qty |-> req[p].sold_qty,
                remaining_qty |-> RemainingQty(product)])
    /\ Call(p, [call |-> "aggregate", coll |-> "product", hit |-> TRUE])
    /\ Frame
    /\ UNCHANGED <<db, requested, checkedOut>>

\* revenue = db["order"].aggregate([...]); return the four numbers
StatsRevenue(p) ==
    /\ Running(p, "stats", "revenue")
    /\ Finish(p, [op |-> "stats", status |-> 200,
                  body |-> [total_items |-> req[p].total_items,
                            sold_items |-> req[p].sold_qty,
                            remaining_items |-> req[p].remaining_qty,
                            daily_revenue |-> Revenue(order)]])
    /\ Call(p, [call |-> "aggregate", coll |-> "order", hit |-> TRUE])
    /\ Frame
    /\ UNCHANGED <<db, requested, checkedOut>>

\* ---------------------------------------------------------- specification
Init ==
    /\ user = <<>>
    /\ product = <<>>
    /\ cart = <<>>
    /\ order = <<>>
    /\ workers = {"w1"}
    /\ req = [p \in Procs |-> Idle]
    /\ resp = [p \in Procs |-> NoResp]
    /\ calls = [p \in Procs |-> <<>>]
    /\ requested = <<>>
    /\ checkedOut = [u \in UserIdInputs |-> FALSE]
    /\ started = 0
    /\ pre = [p \in Procs |-> Snapshot]

InitConc ==
    /\ user = <<>>
    /\ product = <<>>
    /\ cart = <<>>
    /\ order = <<>>
    /\ workers \in {{"w1"}, Procs}
    /\ req = [p \in Procs |-> Idle]
    /\ resp = [p \in Procs |-> NoResp]
    /\ calls = [p \in Procs |-> <<>>]
    /\ requested = <<>>
    /\ checkedOut = [u \in UserIdInputs |-> FALSE]
    /\ started = 0
    /\ pre = [p \in Procs |-> Snapshot]

Next ==
    \E p \in Procs :
        \/ \E u \in UserIdInputs, it \in CartItemInputs : CartAddStart(p, u, it)
        \/ CartAddFind(p)
        \/ CartAddCreate(p)
        \/ CartAddUpdate(p)
        \/ \E u \in UserIdInputs : GetCartStart(p, u)
        \/ GetCartFind(p)
        \/ \E u \in UserIdInputs : CheckoutStart(p, u)
        \/ CheckoutFind(p)
        \/ CheckoutOrder(p)
        \/ CheckoutStock(p)
        \/ CheckoutMark(p)
        \/ \E id \in OrderIdInputs : PayStart(p, id)
        \/ PayFind(p)
        \/ PayUpdate(p)
        \/ \E id \in OrderIdInputs : ReceiptStart(p, id)
        \/ ReceiptFind(p)
        \/ \E c \in CredentialInputs : RegisterStart(p, c[1], c[2])
        \/ RegisterFind(p)
        \/ RegisterInsert(p)
        \/ \E pr \in ProductInputs : AddProduct(p, pr)
        \/ SeedStart(p)
        \/ SeedCount(p)
        \/ SeedInsert(p)
        \/ \E c \in CredentialInputs : LoginStart(p, c[1], c[2])
        \/ LoginFind(p)
        \/ StatsStart(p)
        \/ StatsCount(p)
        \/ StatsSold(p)
        \/ StatsRemaining(p)
        \/ StatsRevenue(p)

\* The requests on the cart and order collections, from either process.
NextConc ==
    \E p \in Procs :
        \/ \E u \in ConcUserIds, it \in CartItemInputs : CartAddStart(p, u, it)
        \/ CartAddFind(p)
        \/ CartAddCreate(p)
        \/ CartAddUpdate(p)
        \/ \E u \in ConcUserIds : CheckoutStart(p, u)
        \/ CheckoutFind(p)
        \/ CheckoutOrder(p)
        \/ CheckoutStock(p)
        \/ CheckoutMark(p)
        \/ \E id \in OrderIdInputs : PayStart(p, id)
        \/ PayFind(p)
        \/ PayUpdate(p)

\* The registrations, from either process.
NextReg ==
    \E p \in Procs :
        \/ \E c \in CredentialInputs : RegisterStart(p, c[1], c[2])
        \/ RegisterFind(p)
        \/ RegisterInsert(p)

\* One server process: every request runs to completion before the next starts.
Spec == Init /\ [][Next]_vars

\* One or two server processes on the same store: store calls interleave.
SpecConc == InitConc /\ [][NextConc]_vars

\* One or two server processes: the store calls of registrations interleave.
SpecReg == InitConc /\ [][NextReg]_vars

\* ------------------------------------------------------------ properties
\* Sum of price x quantity over a sequence of line items.
SumPriceQty(items) ==
    SumSeq([k \in 1..Len(items) |-> items[k].price * items[k].quantity])

\* Positions of the carts of user u that are active.
ActiveCarts(carts, u) ==
    {k \in 1..Len(carts) : carts[k].user_id = u /\ carts[k].status = "active"}

\* Quantity the items order of the product with identifier id.
OrderedQty(items, id) ==
    SumSeq([k \in 1..Len(items) |->
              IF IsObjectIdText(items[k].product_id)
                 /\ HexToNat(items[k].product_id) = id
              THEN items[k].quantity ELSE 0])

\* Quantity of the line(s) of product_id pid.
LineQty(items, pid) ==
    SumSeq([k \in 1..Len(items) |->
              IF items[k].product_id = pid THEN items[k].quantity ELSE 0])

\* The last request of p has ended, it was an `op`, and p served alone.
Ended(p, op) == workers = {p} /\ resp[p].op = op

\* The store calls of p's request that changed a collection.
Writes(p) ==
    {i \in 1..Len(calls[p]) :
        \/ calls[p][i].call = "insert_one"
        \/ calls[p][i].call = "update_one" /\ calls[p][i].hit}

\* C1: a checkout for a user whose active cart has at least one item, run alone,
\* creates exactly one order (that user, that cart, the cart's items, total = sum
\* of price x quantity, "pending", "gpay"), decrements the stock of every product
\* a cart item references by the item's quantity, sets the cart "checked_out" and
\* returns the order's identifier and the total.
C1_CheckoutCreatesOrder ==
    \A p \in Procs :
        Ended(p, "checkout") =>
            \A k \in ActiveCarts(pre[p].cart, resp[p].user_id) :
                pre[p].cart[k].items # <<>> =>
                    LET c == pre[p].cart[k]
                        n == Len(pre[p].order) + 1
                    IN /\ resp[p].status = 200
                       /\ resp[p].body = [order_id |-> IdText(n),
                                          total |-> SumPriceQty(c.items)]
                       /\ Len(order) = n
                       /\ SubSeq(order, 1, n - 1) = pre[p].order
                       /\ order[n] = [_id |-> n, user_id |-> resp[p].user_id,
                                      cart_id |-> IdText(c._id), items |-> c.items,
                                      total |-> SumPriceQty(c.items),
                                      status |-> "pending",
                                      payment_method |-> "gpay",
                                      created_at |-> None]
                       /\ Len(product) = Len(pre[p].product)
                       /\ \A j \in 1..Len(product) :
                              product[j] =
                                  [pre[p].product[j] EXCEPT
                                      !.stock = @ - OrderedQty(c.items, pre[p].product[j]._id)]
                       /\ cart = [pre[p].cart EXCEPT ![k].status = "checked_out"]

\* C2: a checkout that ends in HTTP 400 has written nothing: no order created, no
\* product's stock changed, no cart's status changed.
C2_FailedCheckoutWritesNothing ==
    \A p \in Procs :
        (Ended(p, "checkout") /\ resp[p].status = 400) =>
            /\ order = pre[p].order
            /\ product = pre[p].product
            /\ Len(cart) = Len(pre[p].cart)
            /\ \A k \in 1..Len(cart) : cart[k].status = pre[p].cart[k].status

\* C3: with cart-adds run one at a time, an active cart holds at most one line per
\* product_id, the line's quantity is the sum of the quantities of the cart-adds
\* for that product_id since the cart was created, a repeated product_id only
\* raises the quantity of its line (title and price stay), and a new product_id
\* is appended at the end.
C3_CartAddMerges ==
    /\ \A k \in 1..Len(cart) :
           cart[k].status = "active" =>
               /\ \A i, j \in 1..Len(cart[k].items) :
                      cart[k].items[i].product_id = cart[k].items[j].product_id
                          => i = j
               /\ \A pid \in ProductIdInputs :
                      LineQty(cart[k].items, pid) = requested[k][pid]
    /\ \A p \in Procs :
           (Ended(p, "cart_add") /\ resp[p].status = 200) =>
               LET it == resp[p].item
                   cid == HexToNat(resp[p].body.cart_id)
                   old == IF cid <= Len(pre[p].cart)
                          THEN pre[p].cart[cid].items ELSE <<>>
                   new == cart[cid].items
               IN /\ new = resp[p].body.items
                  /\ IF \E i \in 1..Len(old) : old[i].product_id = it.product_id
                     THEN /\ Len(new) = Len(old)
                          /\ \A i \in 1..Len(old) :
                                 new[i] = IF old[i].product_id = it.product_id
                                          THEN [old[i] EXCEPT
                                                  !.quantity = @ + it.quantity]
                                          ELSE old[i]
                     ELSE new = Append(old, it)

\* C3 witness: an active cart of two lines whose first line was merged (1 + 2)
\* and kept the title and price of the first add.
C3_Witness ==
    \E k \in 1..Len(cart) :
        /\ cart[k].status = "active"
        /\ Len(cart[k].items) = 2
        /\ cart[k].items[1].quantity = 3
        /\ cart[k].items[1].title = "Pen"
        /\ cart[k].items[1].price = 150
        /\ resp["w1"].op = "cart_add"

\* C4: in every reachable state, also while cart-adds and checkouts interleave,
\* each cart's stored subtotal is the sum of price x quantity over its stored items.
C4_SubtotalMatchesItems ==
    \A k \in 1..Len(cart) : cart[k].subtotal = SumPriceQty(cart[k].items)

\* C4 witness: two processes, a cart-add and a checkout both in flight, on a cart
\* of two lines with a non-zero subtotal.
C4_Witness ==
    /\ workers = Procs
    /\ req["w1"].op = "cart_add"
    /\ req["w2"].op = "checkout"
    /\ \E k \in 1..Len(cart) : Len(cart[k].items) = 2 /\ cart[k].subtotal # 0

\* C5 (as stated): after a successful checkout for u and until a cart-add for u
\* is made, every further checkout for u fails with 400, creates no order and
\* changes no stock; a cart-add for u made after the checkout creates a new
\* active cart.
C5_AfterCheckout ==
    \A p \in Procs :
        /\ (resp[p].op = "checkout" /\ resp[p].after) =>
               /\ resp[p].status = 400
               /\ Writes(p) = {}
        /\ (resp[p].op = "cart_add" /\ resp[p].status = 200 /\ resp[p].after) =>
               /\ \E i \in 1..Len(calls[p]) :
                      calls[p][i].call = "insert_one" /\ calls[p][i].coll = "cart"
               /\ cart[HexToNat(resp[p].body.cart_id)].status = "active"

\* C5 (amended): the same, when one process serves the requests one at a time.
C5_AfterCheckoutSequential == (workers = {"w1"}) => C5_AfterCheckout

\* C5 witness: served by one process, a further checkout after a successful one
\* has failed with 400.
C5_Witness ==
    /\ workers = {"w1"}
    /\ resp["w1"].op = "checkout"
    /\ resp["w1"].after
    /\ resp["w1"].status = 400
    /\ Len(order) = 1

\* C6: an order's user_id, cart_id, items and total never change and no order is
\* deleted; a status is "pending" or "paid"; the only status change is "pending"
\* to "paid", made by pay; a "paid" order stays "paid".
C6_OrdersImmutable ==
    [][ /\ Len(order') >= Len(order)
        /\ \A k \in 1..Len(order) :
               /\ order'[k]._id = order[k]._id
               /\ order'[k].user_id = order[k].user_id
               /\ order'[k].cart_id = order[k].cart_id
               /\ order'[k].items = order[k].items
               /\ order'[k].total = order[k].total
               /\ order[k].status = "paid" => order'[k].status = "paid"
               /\ order'[k].status # order[k].status =>
                      /\ order[k].status = "pending"
                      /\ order'[k].status = "paid"
                      /\ \E p \in Procs : req[p].op = "pay" /\ resp'[p].op = "pay"
        /\ \A k \in 1..Len(order') : order'[k].status \in {"pending", "paid"}
      ]_vars

\* C6 witness: a repeated pay of an order that was already "paid" has succeeded.
C6_Witness ==
    /\ resp["w1"].op = "pay"
    /\ resp["w1"].status = 200
    /\ Len(pre["w1"].order) = 1
    /\ pre["w1"].order[1].status = "paid"
    /\ order[1].status = "paid"

\* C7: pay on the identifier of an existing order sets that order "paid", reports
\* success and changes no other order; a well-formed identifier of no order gets
\* 404, a malformed one 400, and then no order is changed.
C7_Pay ==
    \A p \in Procs :
        Ended(p, "pay") =>
            LET id == resp[p].order_id
                hits == IF IsObjectIdText(id)
                        THEN {k \in 1..Len(pre[p].order) :
                                 pre[p].order[k]._id = HexToNat(id)}
                        ELSE {}
            IN /\ ~IsObjectIdText(id) =>
                      /\ resp[p].status = 400
                      /\ order = pre[p].order
               /\ (IsObjectIdText(id) /\ hits = {}) =>
                      /\ resp[p].status = 404
                      /\ order = pre[p].order
               /\ \A k \in hits :
                      /\ resp[p].status = 200
                      /\ resp[p].body = [status |-> "success"]
                      /\ order = [pre[p].order EXCEPT ![k].status = "paid"]

\* C7 witness: a pay of a pending order has succeeded.
C7_Witness ==
    /\ Ended("w1", "pay")
    /\ resp["w1"].status = 200
    /\ pre["w1"].order[1].status = "pending"
    /\ order[1].status = "paid"

\* C8: with registers run one at a time, a register with a stored email fails
\* with 400 and leaves the user records as they were; one with a new email
\* inserts exactly one user and returns its identifier.
C8_Register ==
    \A p \in Procs :
        Ended(p, "register") =>
            IF \E k \in 1..Len(pre[p].user) : pre[p].user[k].email = resp[p].email
            THEN /\ resp[p].status = 400
                 /\ user = pre[p].user
            ELSE /\ resp[p].status = 200
                 /\ Len(user) = Len(pre[p].user) + 1
                 /\ SubSeq(user, 1, Len(user) - 1) = pre[p].user
                 /\ user[Len(user)].email = resp[p].email
                 /\ user[Len(user)].password = resp[p].password
                 /\ resp[p].body = [user_id |-> IdText(user[Len(user)]._id)]

\* C8 witness: a register with an already stored email (and another password)
\* has been refused.
C8_Witness ==
    /\ Ended("w1", "register")
    /\ resp["w1"].status = 400
    /\ Len(user) = 1
    /\ user[1].password # resp["w1"].password

\* C9: every endpoint that takes an object identifier answers a value that is not
\* 24 hexadecimal characters with 400 "Invalid id" and makes no store call.
C9_MalformedIdRejected ==
    \A p \in Procs :
        LET invalid == /\ resp[p].status = 400
                       /\ resp[p].body = "Invalid id"
                       /\ calls[p] = <<>>
        IN /\ (resp[p].op \in {"pay", "receipt"}
                  /\ ~IsObjectIdText(resp[p].order_id)) => invalid
           /\ (resp[p].op \in {"cart_add", "get_cart", "checkout"}
                  /\ resp[p].status # 422
                  /\ ~IsObjectIdText(resp[p].user_id)) => invalid
           /\ (resp[p].op = "cart_add" /\ resp[p].status # 422
                  /\ ~IsObjectIdText(resp[p].item.product_id)) => invalid

\* C10: a cart-add whose price is below 0 is rejected (422) before any store
\* call, so every stored line item has price >= 0 and every subtotal and total
\* is >= 0.
C10_NoNegativePrice ==
    /\ \A p \in Procs :
           (resp[p].op = "cart_add" /\ resp[p].item.price < 0) =>
               /\ resp[p].status = 422
               /\ calls[p] = <<>>
    /\ \A k \in 1..Len(cart) :
           /\ cart[k].subtotal >= 0
           /\ \A i \in 1..Len(cart[k].items) : cart[k].items[i].price >= 0
    /\ \A k \in 1..Len(order) :
           /\ order[k].total >= 0
           /\ \A i \in 1..Len(order[k].items) : order[k].items[i].price >= 0

\* The store as p's last request found it and as it is now are the same.
StoreAsBefore(p) ==
    /\ user = pre[p].user
    /\ product = pre[p].product
    /\ cart = pre[p].cart
    /\ order = pre[p].order

\* Sum of f over the positions of a sequence that lie in the set S.
SumOver(S, f) == SumSeq([k \in 1..Len(f) |-> IF k \in S THEN f[k] ELSE 0])

\* C11: manager stats, run alone, returns total_items = number of products,
\* remaining_items = sum of stock over the products, sold_items = sum of the item
\* quantities of the orders that are "pending" or "paid", daily_revenue = sum of
\* total over the orders that are "paid" (each 0 when nothing matches), and
\* changes no stored state.
C11_ManagerStats ==
    \A p \in Procs :
        Ended(p, "stats") =>
            LET b == resp[p].body
                sold == {k \in 1..Len(order) : order[k].status \in {"pending", "paid"}}
                paid == {k \in 1..Len(order) : order[k].status = "paid"}
            IN /\ resp[p].status = 200
               /\ b.total_items = Len(product)
               /\ b.remaining_items = SumOver(1..Len(product),
                                         [k \in 1..Len(product) |-> product[k].stock])
               /\ b.sold_items =
                      SumOver(sold, [k \in 1..Len(order) |->
                          SumOver(1..Len(order[k].items),
                                  [i \in 1..Len(order[k].items) |->
                                      order[k].items[i].quantity])])
               /\ b.daily_revenue =
                      SumOver(paid, [k \in 1..Len(order) |-> order[k].total])
               /\ (order = <<>>) => (b.sold_items = 0 /\ b.daily_revenue = 0)
               /\ (product = <<>>) => (b.total_items = 0 /\ b.remaining_items = 0)
               /\ StoreAsBefore(p)

\* C11 witness: stats were taken on a store whose only order is pending and has
\* a positive total: its quantities are sold, its total is no revenue.
C11_Witness ==
    /\ Ended("w1", "stats")
    /\ Len(order) = 1
    /\ order[1].status = "pending"
    /\ order[1].total > 0
    /\ resp["w1"].body.sold_items > 0
    /\ resp["w1"].body.daily_revenue = 0

\* C12: run alone, a seed request on an empty product collection inserts exactly
\* the three demo products (Pen 150 / 100, Milk 200 / 50, Chocolate 300 / 75,
\* prices in cents); on a collection with at least one product it inserts
\* nothing, changes no product and reports "Products already exist".
C12_SeedIdempotent ==
    \A p \in Procs :
        Ended(p, "seed") =>
            /\ resp[p].status = 200
            /\ user = pre[p].user /\ cart = pre[p].cart /\ order = pre[p].order
            /\ IF pre[p].product = <<>>
               THEN /\ Len(product) = 3
                    /\ \A k \in 1..3 : product[k]._id = k
                    /\ <<product[1].title, product[1].price, product[1].stock>>
                           = <<"Pen", 150, 100>>
                    /\ <<product[2].title, product[2].price, product[2].stock>>
                           = <<"Milk", 200, 50>>
                    /\ <<product[3].title, product[3].price, product[3].stock>>
                           = <<"Chocolate", 300, 75>>
                    /\ resp[p].body.message = "Seeded"
               ELSE /\ product = pre[p].product
                    /\ resp[p].body.message = "Products already exist"

\* C12 witness: a seed request found the three demo products of an earlier seed
\* and reported that products already exist.
C12_Witness ==
    /\ Ended("w1", "seed")
    /\ resp["w1"].body.message = "Products already exist"
    /\ Len(pre["w1"].product) = 3
    /\ pre["w1"].product[3].title = "Chocolate"

\* C13: run alone, a login succeeds (200) exactly when a stored user has both the
\* given email and the given password; every failure is the same response (401,
\* "Invalid credentials") whether or not the email is registered; no login
\* changes stored state.
C13_Login ==
    \A p \in Procs :
        Ended(p, "login") =>
            LET match == {k \in 1..Len(user) :
                             /\ user[k].email = resp[p].email
                             /\ user[k].password = resp[p].password}
            IN /\ (resp[p].status = 200) <=> (match # {})
               /\ (resp[p].status = 200) =>
                      \E k \in match : resp[p].body.user_id = IdText(user[k]._id)
               /\ (resp[p].status # 200) =>
                      /\ resp[p].status = 401
                      /\ resp[p].body = "Invalid credentials"
               /\ StoreAsBefore(p)

\* C13 witness: a login with a registered email and a wrong password has failed.
C13_Witness ==
    /\ Ended("w1", "login")
    /\ resp["w1"].status = 401
    /\ \E k \in 1..Len(user) :
           /\ user[k].email = resp["w1"].email
           /\ user[k].password # resp["w1"].password

\* C14: checkout applies no floor to stock, and whenever no checkout is in
\* progress each product's stock is its stock at creation minus the quantities of
\* all order items that name the product. Stated per request served alone: once
\* the request has ended, every product it found has the stock it found, less the
\* quantities of the items naming the product in the orders the request added.
C14_StockTracksOrders ==
    \A p \in Procs :
        (workers = {p} /\ resp[p].op # "none" /\ req[p] = Idle) =>
            \A j \in 1..Len(pre[p].product) :
                product[j].stock =
                    pre[p].product[j].stock
                    - SumOver((Len(pre[p].order) + 1)..Len(order),
                              [n \in 1..Len(order) |->
                                  OrderedQty(order[n].items, product[j]._id)])

\* C15: with one request at a time, every user_id has at most one active cart;
\* cart-add creates a cart only when the user had no active cart; get-cart and
\* checkout create none.
C15_OneActiveCart ==
    /\ (workers = {"w1"}) =>
           \A u \in UserIdInputs : Cardinality(ActiveCarts(cart, u)) <= 1
    /\ \A p \in Procs :
           /\ (Ended(p, "cart_add") /\ Len(cart) # Len(pre[p].cart)) =>
                  /\ ActiveCarts(pre[p].cart, resp[p].user_id) = {}
                  /\ Len(cart) = Len(pre[p].cart) + 1
           /\ (Ended(p, "get_cart") \/ Ended(p, "checkout")) =>
                  Len(cart) = Len(pre[p].cart)

\* C15 witness: a user has a checked-out cart and, from a later cart-add, one
\* active cart.
C15_Witness ==
    /\ Ended("w1", "cart_add")
    /\ Len(cart) = 2
    /\ cart[1].user_id = cart[2].user_id
    /\ cart[1].status = "checked_out"
    /\ cart[2].status = "active"
    /\ Len(cart[2].items) = 1

\* p's last request was a cart-add that inserted a cart.
CreatedCart(p) ==
    /\ resp[p].op = "cart_add"
    /\ resp[p].status = 200
    /\ \E i \in 1..Len(calls[p]) :
           calls[p][i].call = "insert_one" /\ calls[p][i].coll = "cart"

\* C16: when two cart-adds for the same user have both looked up the active cart
\* before either inserted one, each creates its own cart: the two carts are
\* different stored records of that user.
C16_EachCreatesOwnCart ==
    \A p, q \in Procs :
        (p # q /\ CreatedCart(p) /\ CreatedCart(q)
              /\ resp[p].user_id = resp[q].user_id) =>
            LET kp == HexToNat(resp[p].body.cart_id)
                kq == HexToNat(resp[q].body.cart_id)
            IN /\ kp # kq
               /\ {kp, kq} \subseteq 1..Len(cart)
               /\ cart[kp].user_id = resp[p].user_id
               /\ cart[kq].user_id = resp[q].user_id

\* C16 witness: two interleaved cart-adds of one user have both ended and the
\* user has two active carts.
C16_Witness ==
    /\ workers = Procs
    /\ CreatedCart("w1") /\ CreatedCart("w2")
    /\ resp["w1"].user_id = resp["w2"].user_id
    /\ Cardinality(ActiveCarts(cart, resp["w1"].user_id)) = 2

\* C17: the write of a cart-add stores the merge of its item into the items the
\* request read, with the matching subtotal, whatever the cart holds by then: a
\* write made in between by another cart-add is replaced.
C17_WriteReplaces ==
    [][\A p \in Procs :
          (Running(p, "cart_add", "update") /\ resp'[p].op = "cart_add") =>
              LET k == req[p].cart._id
                  read == req[p].cart.items
                  it == req[p].item
                  new == cart'[k].items
                  hits == {i \in 1..Len(read) : read[i].product_id = it.product_id}
              IN /\ IF hits = {}
                    THEN new = read \o <<it>>
                    ELSE /\ Len(new) = Len(read)
                         /\ LineQty(new, it.product_id)
                                = LineQty(read, it.product_id) + it.quantity
                         /\ \A i \in 1..Len(read) :
                                i \notin hits => new[i] = read[i]
                 /\ cart'[k].subtotal = SumPriceQty(new)
                 /\ resp'[p].body.items = new]_vars

\* C17 witness: two cart-adds interleaved on one existing cart have ended and the
\* cart holds less of a product than was requested for it.
C17_Witness ==
    /\ workers = Procs
    /\ \A p \in Procs : resp[p].op = "cart_add" /\ resp[p].status = 200
                        /\ ~CreatedCart(p)
    /\ resp["w1"].body.cart_id = resp["w2"].body.cart_id
    /\ \E k \in 1..Len(cart) : \E pid \in ProductIdInputs :
           /\ IdText(k) = resp["w1"].body.cart_id
           /\ requested[k][pid] > LineQty(cart[k].items, pid)

\* C18: in every reachable state, also when the existence check and the insert of
\* two register requests interleave, no two user records have the same email.
C18_EmailUnique ==
    \A i, j \in 1..Len(user) : user[i].email = user[j].email => i = j

\* The checkout request that created order n is still running.
CreatorRunning(n) ==
    \E p \in Procs :
        /\ req[p].op = "checkout"
        /\ req[p].pc \in {"stock", "mark"}
        /\ req[p].order_id = IdText(n)

\* C19: no two orders have the same cart_id, and once the checkout that created
\* an order has ended the cart the order names is "checked_out", under every
\* sequence or interleaving of cart-add and checkout requests.
C19_CartOrderedOnce ==
    /\ \A i, j \in 1..Len(order) : order[i].cart_id = order[j].cart_id => i = j
    /\ \A n \in 1..Len(order) :
           ~CreatorRunning(n) =>
               cart[HexToNat(order[n].cart_id)].status = "checked_out"

\* C20: a "checked_out" cart is frozen: no step of any cart-add, get-cart or
\* checkout request changes its status, items or subtotal, so its items and
\* subtotal stay those of the order created from it.
C20_CheckedOutFrozen ==
    [][/\ \A k \in 1..Len(cart) :
              cart[k].status = "checked_out" => cart'[k] = cart[k]
       /\ \A n \in 1..Len(order') :
              LET k == HexToNat(order'[n].cart_id)
              IN cart'[k].status = "checked_out" =>
                     /\ cart'[k].items = order'[n].items
                     /\ cart'[k].subtotal = order'[n].total]_vars

====
